---- MODULE Spec2Model ----
(***************************************************************************)
(* Model of the room relay of server.js: the room registry `rooms`, the   *)
(* per-connection attributes (roomCode, isHost, playerId, isAlive,        *)
(* readyState), the message handlers, the disconnect handling and the     *)
(* 30 s liveness sweep.  Every handler runs to completion (single         *)
(* threaded event loop), so every handler is one action.                  *)
(***************************************************************************)
EXTENDS Integers, Sequences, FiniteSets, TLC

\* ---------------------------------------------------------------- bounds
NumConns == 3
NumCodes == 2
\* the number of events (connections, messages, closes, timer ticks) of a run
MaxSteps == 8

\* ------------------------------------------------------ program constants
MaxGuests == 5

Conns == 1..NumConns
AllCodes == <<"A", "B", "C", "D">>
Codes == {AllCodes[i] : i \in 1..NumCodes}

\* JS `undefined` for ws.roomCode / ws.playerId (falsy in `!ws.roomCode`)
Undefined == ""

VARIABLES
    rooms,       \* the Map `rooms`: room code -> room object
    roomCode,    \* ws.roomCode
    isHost,      \* ws.isHost (undefined is modelled as FALSE: only its truthiness is read)
    playerId,    \* ws.playerId
    isAlive,     \* ws.isAlive
    readyState,  \* ws.readyState, "NONE" before the 'connection' event
    inbound,     \* connections whose receiver can still deliver 'message'/'pong' events
    sent,        \* the writes made by the last handler, in order
    steps        \* the number of events handled so far

vars == <<rooms, roomCode, isHost, playerId, isAlive, readyState, inbound, sent, steps>>

\* msg.roomCode.toUpperCase()
toUpperCase(c) ==
    CASE c = "a" -> "A"
      [] c = "b" -> "B"
      [] c = "c" -> "C"
      [] c = "d" -> "D"
      [] OTHER -> c

LowerCodes == {"a"}
\* the room codes a join_room message may carry
JoinCodes == Codes \cup LowerCodes

\* `player_${n}`
PlayerName(n) ==
    CASE n = 1 -> "player_1"
      [] n = 2 -> "player_2"
      [] n = 3 -> "player_3"
      [] n = 4 -> "player_4"
      [] n = 5 -> "player_5"
      [] n = 6 -> "player_6"
      [] OTHER -> "player_7"

\* the server state a handler reads and writes
Cur ==
    [rooms |-> rooms, roomCode |-> roomCode, isHost |-> isHost,
     playerId |-> playerId, isAlive |-> isAlive, readyState |-> readyState,
     inbound |-> inbound, sent |-> <<>>]

Commit(s) ==
    /\ steps < MaxSteps
    /\ steps' = steps + 1
    /\ rooms' = s.rooms
    /\ roomCode' = s.roomCode
    /\ isHost' = s.isHost
    /\ playerId' = s.playerId
    /\ isAlive' = s.isAlive
    /\ readyState' = s.readyState
    /\ inbound' = s.inbound
    /\ sent' = s.sent

\* ws.send(...) with no readyState check; `open` records whether the
\* transport was OPEN when the write was attempted (a write on a transport
\* that is not OPEN is dropped by the socket and does not throw)
Send(s, to, type, arg) ==
    [s EXCEPT !.sent = Append(@, [to |-> to, type |-> type, arg |-> arg,
                                  open |-> s.readyState[to] = "OPEN"])]

\* if (client.readyState === WebSocket.OPEN) client.send(...)
SendIfOpen(s, to, type, arg) ==
    IF s.readyState[to] = "OPEN" THEN Send(s, to, type, arg) ELSE s

\* clients.forEach(client => { if (client !== skip && OPEN) client.send(m) })
RECURSIVE ForEachSend(_, _, _, _, _, _)
ForEachSend(s, clients, i, skip, type, arg) ==
    IF i > Len(clients) THEN s
    ELSE ForEachSend(IF clients[i] # skip
                        THEN SendIfOpen(s, clients[i], type, arg)
                        ELSE s,
                     clients, i + 1, skip, type, arg)

\* no connection is skipped
NoSkip == 0

\* the host-authoritative star used by the relays
Star(s, ws, room, type, arg) ==
    IF s.isHost[ws]
    THEN ForEachSend(s, room.clients, 1, NoSkip, type, arg)
    ELSE ForEachSend(SendIfOpen(s, room.host, type, arg),
                     room.clients, 1, ws, type, arg)

\* the payloads the model's messages carry
Positions == {1}
AnimStates == {1}
\* msg.data of environment_update: {}, a non-empty object, or missing
EnvData == {"empty", "set", "undefined"}
PuzzleIds == {"p1", "p2"}
EnemyIds == {"e1"}
\* msg.data of enemy_state: an object with an enemy_id, or missing
EnemyData == EnemyIds \cup {"undefined"}

\* { info, position: {x:0,y:0,z:0}, animState: 0, sprinting: false }
NewPlayer == [position |-> 0, animState |-> 0, sprinting |-> FALSE]

NewRoom(ws) ==
    [host |-> ws,
     clients |-> <<>>,
     playerData |-> [k \in {"host"} |-> NewPlayer],
     environmentState |-> "empty",
     puzzleStates |-> << >>,
     enemyStates |-> << >>]

\* rooms.set(code, room)
MapSet(m, k, v) == [x \in DOMAIN m \cup {k} |-> IF x = k THEN v ELSE m[x]]
\* rooms.delete(code) / delete obj[k]
MapDelete(m, k) == [x \in DOMAIN m \ {k} |-> m[x]]

\* obj[k] = v on an object whose entries keep their insertion order
RECURSIVE Upsert(_, _, _, _)
Upsert(entries, i, k, v) ==
    IF i > Len(entries) THEN Append(entries, [key |-> k, value |-> v])
    ELSE IF entries[i].key = k THEN [entries EXCEPT ![i].value = v]
    ELSE Upsert(entries, i + 1, k, v)

\* for (const [k, v] of Object.entries(obj)) ws.send(...)
RECURSIVE SendEntries(_, _, _, _, _)
SendEntries(s, ws, entries, i, type) ==
    IF i > Len(entries) THEN s
    ELSE SendEntries(Send(s, ws, type, entries[i].key), ws, entries, i + 1, type)

createRoom(s, ws, code) ==
    LET s1 == [s EXCEPT !.rooms = MapSet(@, code, NewRoom(ws)),
                        !.roomCode[ws] = code,
                        !.isHost[ws] = TRUE,
                        !.playerId[ws] = "host"]
    IN Send(s1, ws, "room_created", code)

\* a capacity check that lets a sixth guest in
RoomFullOffByOne(room) == Len(room.clients) > MaxGuests

\* room.clients.length >= 5
RoomFull(room) == Len(room.clients) >= MaxGuests

\* a failure reply that also closes the requester's connection
joinFailedAndClose(s, ws, error) ==
    [Send(s, ws, "join_failed", error) EXCEPT !.readyState[ws] = "CLOSING"]

\* ws.send({ type: 'join_failed', error }); return
joinFailed(s, ws, error) == Send(s, ws, "join_failed", error)

joinRoom(s, ws, msgCode) ==
    LET code == toUpperCase(msgCode) IN
    IF code \notin DOMAIN s.rooms
    THEN joinFailed(s, ws, "Room not found")
    ELSE IF RoomFull(s.rooms[code])
    THEN joinFailed(s, ws, "Room full (max 6 players)")
    ELSE
      LET room == s.rooms[code]
          pid == PlayerName(Len(room.clients) + 1)
          room1 == [room EXCEPT !.clients = Append(@, ws),
                                !.playerData = MapSet(@, pid, NewPlayer)]
          s1 == [s EXCEPT !.roomCode[ws] = code,
                          !.isHost[ws] = FALSE,
                          !.playerId[ws] = pid,
                          !.rooms[code] = room1]
          s2 == Send(s1, ws, "join_success", pid)
          \* Object.keys(room.environmentState) throws a TypeError on undefined
          s3 == IF room1.environmentState = "set"
                THEN Send(s2, ws, "environment_update", "set")
                ELSE s2
          s4 == SendEntries(s3, ws, room1.puzzleStates, 1, "puzzle_update")
          s5 == SendEntries(s4, ws, room1.enemyStates, 1, "enemy_state")
          s6 == Send(s5, room1.host, "player_joined", pid)
      IN IF room1.environmentState = "undefined"
         THEN s2
         ELSE ForEachSend(s6, room1.clients, 1, ws, "player_joined", pid)

\* clients.indexOf(ws), 0 when absent
RECURSIVE indexOf(_, _, _)
indexOf(clients, ws, i) ==
    IF i > Len(clients) THEN 0
    ELSE IF clients[i] = ws THEN i
    ELSE indexOf(clients, ws, i + 1)

\* clients.splice(index, 1)
splice(clients, index) ==
    [j \in 1..(Len(clients) - 1) |-> IF j < index THEN clients[j] ELSE clients[j + 1]]

\* the host branch's forEach: send host_disconnected and close() each OPEN client
RECURSIVE CloseClients(_, _, _)
CloseClients(s, clients, i) ==
    IF i > Len(clients) THEN s
    ELSE IF s.readyState[clients[i]] = "OPEN"
    THEN CloseClients([Send(s, clients[i], "host_disconnected", "Host left")
                          EXCEPT !.readyState[clients[i]] = "CLOSING"],
                      clients, i + 1)
    ELSE CloseClients(s, clients, i + 1)

handleDisconnect(s, ws) ==
    IF s.roomCode[ws] = Undefined THEN s
    ELSE IF s.roomCode[ws] \notin DOMAIN s.rooms THEN s
    ELSE
      LET code == s.roomCode[ws]
          room == s.rooms[code]
      IN IF s.isHost[ws]
         THEN [CloseClients(s, room.clients, 1) EXCEPT !.rooms = MapDelete(@, code)]
         ELSE LET index == indexOf(room.clients, ws, 1) IN
              IF index > 0
              THEN LET room1 == [room EXCEPT
                                   !.clients = splice(@, index),
                                   !.playerData = MapDelete(@, s.playerId[ws])]
                       s1 == [s EXCEPT !.rooms[code] = room1]
                       s2 == SendIfOpen(s1, room1.host, "player_left", s.playerId[ws])
                   IN ForEachSend(s2, room1.clients, 1, NoSkip, "player_left", s.playerId[ws])
              ELSE s

leaveRoom(s, ws) == handleDisconnect(s, ws)

\* rooms.get(ws.roomCode) found a room
HasRoom(s, ws) == s.roomCode[ws] \in DOMAIN s.rooms

broadcastPosition(s, ws, position) ==
    IF ~HasRoom(s, ws) THEN s
    ELSE LET code == s.roomCode[ws]
             room == s.rooms[code]
             s1 == IF s.playerId[ws] \in DOMAIN room.playerData
                   THEN [s EXCEPT !.rooms[code].playerData[s.playerId[ws]].position = position]
                   ELSE s
         IN Star(s1, ws, room, "player_position", s.playerId[ws])

broadcastAnimation(s, ws, animState, sprinting) ==
    IF ~HasRoom(s, ws) THEN s
    ELSE LET code == s.roomCode[ws]
             room == s.rooms[code]
             s1 == IF s.playerId[ws] \in DOMAIN room.playerData
                   THEN [s EXCEPT !.rooms[code].playerData[s.playerId[ws]].animState = animState,
                                  !.rooms[code].playerData[s.playerId[ws]].sprinting = sprinting]
                   ELSE s
         IN Star(s1, ws, room, "player_animation", s.playerId[ws])

broadcastChat(s, ws) ==
    IF ~HasRoom(s, ws) THEN s
    ELSE Star(Send(s, ws, "chat_message", s.playerId[ws]),
              ws, s.rooms[s.roomCode[ws]], "chat_message", s.playerId[ws])

broadcastEnvironment(s, ws, data) ==
    IF ~HasRoom(s, ws) \/ ~s.isHost[ws] THEN s
    ELSE LET code == s.roomCode[ws]
             s1 == [s EXCEPT !.rooms[code].environmentState = data]
         IN ForEachSend(s1, s.rooms[code].clients, 1, NoSkip, "environment_update", data)

broadcastPuzzle(s, ws, puzzleId, state) ==
    IF ~HasRoom(s, ws) THEN s
    ELSE LET code == s.roomCode[ws]
             s1 == [s EXCEPT !.rooms[code].puzzleStates = Upsert(@, 1, puzzleId, state)]
         IN Star(s1, ws, s.rooms[code], "puzzle_update", puzzleId)

broadcastInteraction(s, ws) ==
    IF ~HasRoom(s, ws) THEN s
    ELSE Star(s, ws, s.rooms[s.roomCode[ws]], "interaction", s.playerId[ws])

\* enemyData.enemy_id throws a TypeError when msg.data is missing
broadcastEnemyState(s, ws, data) ==
    IF ~HasRoom(s, ws) \/ ~s.isHost[ws] THEN s
    ELSE IF data = "undefined" THEN s
    ELSE LET code == s.roomCode[ws]
             s1 == [s EXCEPT !.rooms[code].enemyStates = Upsert(@, 1, data, 1)]
         IN ForEachSend(s1, s.rooms[code].clients, 1, NoSkip, "enemy_state", data)

broadcastEnemyCapture(s, ws) ==
    IF ~HasRoom(s, ws) \/ ~s.isHost[ws] THEN s
    ELSE ForEachSend(s, s.rooms[s.roomCode[ws]].clients, 1, NoSkip, "enemy_capture", Undefined)

\* ------------------------------------------------------------------ Init
Init ==
    /\ rooms = << >>
    /\ roomCode = [c \in Conns |-> Undefined]
    /\ isHost = [c \in Conns |-> FALSE]
    /\ playerId = [c \in Conns |-> Undefined]
    /\ isAlive = [c \in Conns |-> FALSE]
    /\ readyState = [c \in Conns |-> "NONE"]
    /\ inbound = {}
    /\ sent = << >>
    /\ steps = 0

\* --------------------------------------------------------------- actions
\* wss.on('connection'): connections are numbered in the order they connect
Connect(ws) ==
    /\ readyState[ws] = "NONE"
    /\ \A c \in Conns : c < ws => readyState[c] # "NONE"
    /\ Commit([Cur EXCEPT !.readyState[ws] = "OPEN",
                          !.isAlive[ws] = TRUE,
                          !.inbound = @ \cup {ws}])

\* ws.on('pong')
Pong(ws) ==
    /\ ws \in inbound
    /\ Commit([Cur EXCEPT !.isAlive[ws] = TRUE])

\* a createRoom that takes the first generated code, in use or not
CreateRoomNoRetry(ws, code) ==
    /\ ws \in inbound
    /\ Commit(createRoom(Cur, ws, code))

\* generateRoomCode() is random and is repeated while rooms.has(code): the
\* result is any code that is not a key of `rooms` now, the code of a room
\* that was deleted included
CreateRoom(ws, code) ==
    /\ ws \in inbound
    /\ code \notin DOMAIN rooms
    /\ Commit(createRoom(Cur, ws, code))

JoinRoom(ws, code) ==
    /\ ws \in inbound
    /\ Commit(joinRoom(Cur, ws, code))

LeaveRoom(ws) ==
    /\ ws \in inbound
    /\ Commit(leaveRoom(Cur, ws))

PlayerPosition(ws, position) ==
    /\ ws \in inbound
    /\ Commit(broadcastPosition(Cur, ws, position))

PlayerAnimation(ws, animState) ==
    /\ ws \in inbound
    /\ Commit(broadcastAnimation(Cur, ws, animState, TRUE))

ChatMessage(ws) ==
    /\ ws \in inbound
    /\ Commit(broadcastChat(Cur, ws))

EnvironmentUpdate(ws, data) ==
    /\ ws \in inbound
    /\ Commit(broadcastEnvironment(Cur, ws, data))

PuzzleUpdate(ws, puzzleId) ==
    /\ ws \in inbound
    /\ Commit(broadcastPuzzle(Cur, ws, puzzleId, 1))

Interaction(ws) ==
    /\ ws \in inbound
    /\ Commit(broadcastInteraction(Cur, ws))

EnemyState(ws, data) ==
    /\ ws \in inbound
    /\ Commit(broadcastEnemyState(Cur, ws, data))

EnemyCapture(ws) ==
    /\ ws \in inbound
    /\ Commit(broadcastEnemyCapture(Cur, ws))

\* the peer starts the closing handshake (or the network drops)
PeerClose(ws) ==
    /\ readyState[ws] = "OPEN"
    /\ Commit([Cur EXCEPT !.readyState[ws] = "CLOSING",
                          !.inbound = @ \ {ws}])

\* ws.on('close', () => handleDisconnect(ws))
Close(ws) ==
    /\ readyState[ws] = "CLOSING"
    /\ Commit(handleDisconnect([Cur EXCEPT !.readyState[ws] = "CLOSED",
                                           !.inbound = @ \ {ws}], ws))

\* ws.terminate()
terminate(s, ws) ==
    [s EXCEPT !.readyState[ws] = "CLOSING", !.inbound = @ \ {ws}]

\* a sweep that pings without clearing the flag
sweepOneNoClear(s, ws) ==
    IF s.isAlive[ws] = FALSE
    THEN terminate(handleDisconnect(s, ws), ws)
    ELSE Send(s, ws, "ping", Undefined)

\* the body of the interval callback for one connection
sweepOne(s, ws) ==
    IF s.isAlive[ws] = FALSE
    THEN terminate(handleDisconnect(s, ws), ws)
    ELSE Send([s EXCEPT !.isAlive[ws] = FALSE], ws, "ping", Undefined)

\* wss.clients.forEach(...): the connections not yet closed, in connection order
RECURSIVE sweep(_, _)
sweep(s, ws) ==
    IF ws > NumConns THEN s
    ELSE IF s.readyState[ws] \notin {"OPEN", "CLOSING"} THEN sweep(s, ws + 1)
    ELSE sweep(sweepOne(s, ws), ws + 1)

Tick ==
    /\ \E ws \in Conns : readyState[ws] \in {"OPEN", "CLOSING"}
    /\ Commit(sweep(Cur, 1))

Next ==
    \/ \E ws \in Conns : Connect(ws)
    \/ \E ws \in Conns : Pong(ws)
    \/ \E ws \in Conns, code \in Codes : CreateRoom(ws, code)
    \/ \E ws \in Conns, code \in JoinCodes : JoinRoom(ws, code)
    \/ \E ws \in Conns : LeaveRoom(ws)
    \/ \E ws \in Conns, position \in Positions : PlayerPosition(ws, position)
    \/ \E ws \in Conns, animState \in AnimStates : PlayerAnimation(ws, animState)
    \/ \E ws \in Conns : ChatMessage(ws)
    \/ \E ws \in Conns, data \in EnvData : EnvironmentUpdate(ws, data)
    \/ \E ws \in Conns, puzzleId \in PuzzleIds : PuzzleUpdate(ws, puzzleId)
    \/ \E ws \in Conns : Interaction(ws)
    \/ \E ws \in Conns, data \in EnemyData : EnemyState(ws, data)
    \/ \E ws \in Conns : EnemyCapture(ws)
    \/ \E ws \in Conns : PeerClose(ws)
    \/ \E ws \in Conns : Close(ws)
    \/ Tick

Spec == Init /\ [][Next]_vars

\* ------------------------------------------------------------ properties
\* room.clients as a set
Guests(room) == {room.clients[i] : i \in DOMAIN room.clients}

\* the connections a handler wrote `type` to
SentTo(msgs, type) == {msgs[i].to : i \in {j \in DOMAIN msgs : msgs[j].type = type}}

\* the connections a handler wrote `type` about player `arg` to
SentAbout(msgs, type, arg) ==
    {msgs[i].to : i \in {j \in DOMAIN msgs : msgs[j].type = type /\ msgs[j].arg = arg}}

\* the step runs handleDisconnect(ws): leave_room, the 'close' event, or the
\* liveness sweep finding ws.isAlive false
Disconnects(ws) ==
    \/ LeaveRoom(ws)
    \/ Close(ws)
    \/ Tick /\ readyState[ws] \in {"OPEN", "CLOSING"} /\ ~isAlive[ws]

\* C1: in every reachable state the keys of each room's playerData are
\* "host" together with the playerIds of the connections in room.clients.
PlayerDataKeysMatchGuests ==
    \A c \in DOMAIN rooms :
        DOMAIN rooms[c].playerData =
            {"host"} \cup {playerId[g] : g \in Guests(rooms[c])}

\* C2: no room of the registry has a host whose 'close' event has been handled.
NoHeadlessRoom ==
    \A c \in DOMAIN rooms : readyState[rooms[c].host] # "CLOSED"

\* C3: when disconnect handling runs for the host of a room, the room leaves
\* the registry and every connection in its guests is sent host_disconnected
\* and is no longer open.
HostDisconnectTearsDown ==
    [][\A ws \in Conns : \A c \in DOMAIN rooms :
          (Disconnects(ws) /\ rooms[c].host = ws) =>
              /\ c \notin DOMAIN rooms'
              /\ \A g \in Guests(rooms[c]) :
                    /\ g \in SentTo(sent', "host_disconnected")
                    /\ readyState'[g] # "OPEN"]_vars

\* C4: no room ever has more than 5 guests, and a join_room aimed at a room
\* with 5 guests is answered with join_failed 'Room full (max 6 players)'
\* and admits nobody.
SixthGuestNeverAdmitted ==
    [][/\ \A c \in DOMAIN rooms' : Len(rooms'[c].clients) <= MaxGuests
       /\ \A ws \in Conns : \A code \in JoinCodes :
            (/\ toUpperCase(code) \in DOMAIN rooms
             /\ Len(rooms[toUpperCase(code)].clients) = MaxGuests
             /\ JoinRoom(ws, code))
            => /\ sent' = <<[to |-> ws, type |-> "join_failed",
                             arg |-> "Room full (max 6 players)",
                             open |-> readyState[ws] = "OPEN"]>>
               /\ rooms' = rooms]_vars

\* C4 witness: a join_room was refused by a room holding 5 guests
RoomFullRefused ==
    /\ Len(sent) = 1
    /\ sent[1].type = "join_failed"
    /\ sent[1].arg = "Room full (max 6 players)"
    /\ \E c \in DOMAIN rooms : Len(rooms[c].clients) = MaxGuests

\* C5: a join_room for an unknown code or a full room writes join_failed to
\* the requester alone and changes neither the registry, any room, the
\* requester's roomCode/isHost/playerId nor any connection's readyState.
FailedJoinMutatesNothing ==
    [][\A ws \in Conns : \A code \in JoinCodes :
          (/\ \/ toUpperCase(code) \notin DOMAIN rooms
              \/ Len(rooms[toUpperCase(code)].clients) >= MaxGuests
           /\ ws \in inbound
           /\ JoinRoom(ws, code))
          => /\ Len(sent') = 1
             /\ sent'[1].to = ws
             /\ sent'[1].type = "join_failed"
             /\ sent'[1].arg = IF toUpperCase(code) \in DOMAIN rooms
                               THEN "Room full (max 6 players)"
                               ELSE "Room not found"
             /\ UNCHANGED <<rooms, roomCode, isHost, playerId, readyState, inbound>>]_vars

\* C5 witness: a join_room for an unknown code was refused while a room with
\* a guest exists and the requester is bound to it
UnknownCodeRefused ==
    /\ Len(sent) = 1
    /\ sent[1].type = "join_failed"
    /\ sent[1].arg = "Room not found"
    /\ readyState[sent[1].to] = "OPEN"
    /\ roomCode[sent[1].to] \in DOMAIN rooms
    /\ sent[1].to \in Guests(rooms[roomCode[sent[1].to]])

\* the open connections of a room (its host and its guests) other than ws
OpenOthers(room, ws) ==
    {m \in {room.host} \cup Guests(room) : readyState[m] = "OPEN"} \ {ws}

\* C6: player_position, player_animation, puzzle_update and interaction are
\* delivered to exactly the open connections of the sender's room other
\* than the sender.
RelayReachesOthersOnly ==
    [][\A ws \in inbound :
          roomCode[ws] \in DOMAIN rooms =>
            LET others == OpenOthers(rooms[roomCode[ws]], ws) IN
              /\ \A position \in Positions :
                    PlayerPosition(ws, position) =>
                        SentTo(sent', "player_position") = others
              /\ \A animState \in AnimStates :
                    PlayerAnimation(ws, animState) =>
                        SentTo(sent', "player_animation") = others
              /\ \A puzzleId \in PuzzleIds :
                    PuzzleUpdate(ws, puzzleId) =>
                        SentTo(sent', "puzzle_update") = others
              /\ Interaction(ws) => SentTo(sent', "interaction") = others]_vars

\* ws is the host of the room its roomCode names
IsHostOfItsRoom(ws) ==
    /\ roomCode[ws] \in DOMAIN rooms
    /\ rooms[roomCode[ws]].host = ws

\* C7: environment_update, enemy_state and enemy_capture from a connection
\* that is not the host of its room write nothing and change no room.
HostOnlyFromNonHostDropped ==
    [][\A ws \in inbound :
          ~IsHostOfItsRoom(ws) =>
            /\ \A data \in EnvData :
                  EnvironmentUpdate(ws, data) => (sent' = << >> /\ rooms' = rooms)
            /\ \A data \in EnemyData :
                  EnemyState(ws, data) => (sent' = << >> /\ rooms' = rooms)
            /\ EnemyCapture(ws) => (sent' = << >> /\ rooms' = rooms)]_vars

\* C8: once a connection's roomCode, isHost and playerId have been set by a
\* create_room or join_room, no later step changes them.
BindingSetOnce ==
    [][\A ws \in Conns :
          roomCode[ws] # Undefined =>
            /\ roomCode'[ws] = roomCode[ws]
            /\ isHost'[ws] = isHost[ws]
            /\ playerId'[ws] = playerId[ws]]_vars

\* C9: a room leaves the registry only in a step that runs the disconnect
\* handling of the connection that is that room's host.
RoomRemovedOnlyByItsHost ==
    [][\A c \in DOMAIN rooms :
          c \notin DOMAIN rooms' => Disconnects(rooms[c].host)]_vars

\* C10: when disconnect handling runs for a connection that is in a room's
\* guests, the room stays, it has one guest less, its playerData has no entry
\* for that connection's playerId, and player_left with that playerId is
\* written to the host and to every remaining guest.
GuestDisconnectShrinksRoom ==
    [][\A ws \in Conns : \A c \in DOMAIN rooms :
          (ws \in Guests(rooms[c]) /\ Disconnects(ws)) =>
            /\ c \in DOMAIN rooms'
            /\ Len(rooms'[c].clients) = Len(rooms[c].clients) - 1
            /\ playerId[ws] \notin DOMAIN rooms'[c].playerData
            /\ \A m \in {rooms'[c].host} \cup Guests(rooms'[c]) :
                  m \in SentAbout(sent', "player_left", playerId[ws])]_vars

\* C11: disconnect handling is idempotent: once a leave_room of a connection
\* has been handled, handling its disconnect again (a second leave_room, or
\* the 'close' event) changes no room, closes nobody and writes nothing; and
\* the disconnect of a connection that has no roomCode changes no room and
\* writes nothing.
DisconnectIdempotent ==
    [][\A ws \in Conns :
          /\ (roomCode[ws] # Undefined /\ LeaveRoom(ws)) =>
                LET again == handleDisconnect(Cur', ws)
                IN  /\ again.rooms = rooms'
                    /\ again.readyState = readyState'
                    /\ again.sent = << >>
          /\ (roomCode[ws] = Undefined /\ (LeaveRoom(ws) \/ Close(ws))) =>
                /\ rooms' = rooms
                /\ sent' = << >>]_vars

\* what a joiner of `room` is owed first: join_success, then the cached state
CachedState(room, pid) ==
    <<[type |-> "join_success", arg |-> pid]>>
    \o (IF room.environmentState = "set"
        THEN <<[type |-> "environment_update", arg |-> "set"]>> ELSE << >>)
    \o [i \in DOMAIN room.puzzleStates |->
            [type |-> "puzzle_update", arg |-> room.puzzleStates[i].key]]
    \o [i \in DOMAIN room.enemyStates |->
            [type |-> "enemy_state", arg |-> room.enemyStates[i].key]]

ReplayTypes == {"join_success", "environment_update", "puzzle_update", "enemy_state"}

\* C12: a join_room that admits the joiner writes to the joiner, before
\* anything else, join_success, environment_update if the room's
\* environmentState is non-empty, one puzzle_update per puzzleStates entry and
\* one enemy_state per enemyStates entry, and writes none of these to any
\* other connection.
JoinerGetsCachedState ==
    [][\A ws \in Conns : \A code \in JoinCodes :
          (/\ toUpperCase(code) \in DOMAIN rooms
           /\ ~RoomFull(rooms[toUpperCase(code)])
           /\ JoinRoom(ws, code))
          => LET owed == CachedState(rooms[toUpperCase(code)], playerId'[ws])
             IN  /\ Len(sent') >= Len(owed)
                 /\ \A i \in DOMAIN owed :
                       /\ sent'[i].to = ws
                       /\ sent'[i].type = owed[i].type
                       /\ sent'[i].arg = owed[i].arg
                 /\ \A i \in DOMAIN sent' :
                       sent'[i].type \in ReplayTypes => sent'[i].to = ws]_vars

\* C13: a join_room that admits a connection not yet in the room writes
\* player_joined with the joiner's playerId to the room's host and to every
\* guest already in the room whose transport is open, and never to the
\* joiner, whatever state the room has cached (an environmentState stored
\* from an environment_update without data included).
AdmissionAnnounced ==
    [][\A ws \in Conns : \A code \in JoinCodes :
          (/\ toUpperCase(code) \in DOMAIN rooms
           /\ ~RoomFull(rooms[toUpperCase(code)])
           /\ ws # rooms[toUpperCase(code)].host
           /\ ws \notin Guests(rooms[toUpperCase(code)])
           /\ JoinRoom(ws, code))
          => LET room == rooms[toUpperCase(code)]
             IN  /\ \A m \in {room.host} \cup Guests(room) :
                       readyState[m] = "OPEN" =>
                          m \in SentAbout(sent', "player_joined", playerId'[ws])
                 /\ ws \notin SentTo(sent', "player_joined")]_vars

\* C14: a join_room that admits the joiner to a room with n guests gives it
\* the playerId player_{n+1}, and no two connections in the guests of one
\* room, each bound to that room, ever hold the same playerId.
GuestIdsSequentialAndDistinct ==
    [][/\ \A ws \in Conns : \A code \in JoinCodes :
            (/\ toUpperCase(code) \in DOMAIN rooms
             /\ ~RoomFull(rooms[toUpperCase(code)])
             /\ JoinRoom(ws, code))
            => playerId'[ws] =
                  PlayerName(Len(rooms[toUpperCase(code)].clients) + 1)
       /\ \A c \in DOMAIN rooms' : \A g1, g2 \in Guests(rooms'[c]) :
            (g1 # g2 /\ roomCode'[g1] = c /\ roomCode'[g2] = c)
                => playerId'[g1] # playerId'[g2]]_vars

\* the number of slots `ws` has in room.clients
RECURSIVE Slots(_, _)
Slots(clients, ws) ==
    IF clients = << >> THEN 0
    ELSE (IF Head(clients) = ws THEN 1 ELSE 0) + Slots(Tail(clients), ws)

\* C15: the liveness monitor is a missed-probe detector with one tick of
\* grace.  At a tick every connection not yet closed whose flag is false is
\* torn down (its room is removed if it is a host, one of its slots is
\* removed if it is a guest) and terminated without a ping; every other one
\* has its flag cleared, is pinged and is not terminated.  Only a tick clears
\* the flag and only a pong (or the connection event) sets it, so a
\* connection that sends no pong between two ticks is torn down at the second
\* and one that answers every ping is never terminated by the monitor.
MissedProbeDetector ==
    [][/\ \A ws \in Conns :
            /\ (isAlive[ws] /\ ~isAlive'[ws]) => Tick
            /\ (~isAlive[ws] /\ isAlive'[ws]) => (Pong(ws) \/ Connect(ws))
            /\ (ws \in inbound /\ Pong(ws)) => isAlive'[ws]
       /\ (/\ inbound' \subseteq inbound
           /\ roomCode' = roomCode
           /\ Tick)
          => \A ws \in Conns :
               readyState[ws] \in {"OPEN", "CLOSING"} =>
                 IF ~isAlive[ws]
                 THEN /\ readyState'[ws] = "CLOSING"
                      /\ ws \notin inbound'
                      /\ ws \notin SentTo(sent', "ping")
                      /\ (isHost[ws] /\ roomCode[ws] # Undefined)
                            => roomCode[ws] \notin DOMAIN rooms'
                      /\ (~isHost[ws] /\ roomCode[ws] \in DOMAIN rooms')
                            => LET before == Slots(rooms[roomCode[ws]].clients, ws)
                                   after == Slots(rooms'[roomCode[ws]].clients, ws)
                               IN after = IF before = 0 THEN 0 ELSE before - 1
                 ELSE /\ ~isAlive'[ws]
                      /\ ws \in SentTo(sent', "ping")
                      /\ ws \in inbound => ws \in inbound']_vars

\* a tick has torn down a silent host and pinged its guest, which had answered
SilentHostSweptGuestPinged ==
    \E dead, other \in Conns :
        /\ dead # other
        /\ readyState[dead] = "CLOSING"
        /\ dead \notin inbound
        /\ dead \notin SentTo(sent, "ping")
        /\ other \in SentTo(sent, "ping")
        /\ other \in SentTo(sent, "host_disconnected")
        /\ other \in inbound

\* C16: every message the handlers write (replies, relays, player_joined,
\* player_left, host_disconnected, the chat echo, the late-join replay) is
\* written to a connection whose transport is OPEN at that moment.
WritesOnlyToOpen ==
    \A i \in DOMAIN sent : sent[i].type # "ping" => sent[i].open

\* C17: create_room never replaces or alters an existing room.  The step
\* that answers room_created takes a code that is not a key of the registry,
\* leaves every existing room as it was and adds exactly one room under that
\* code, with the caller as host, no guests and playerData holding exactly
\* "host"; the caller is bound to the code as host with playerId "host" and
\* room_created with the code is the only write.  No other step adds a room.
CreateAddsOneFreshRoom ==
    [][/\ \A i \in DOMAIN sent' :
            sent'[i].type = "room_created" =>
               LET ws == sent'[i].to
                   code == sent'[i].arg
               IN  /\ Len(sent') = 1
                   /\ code \notin DOMAIN rooms
                   /\ DOMAIN rooms' = DOMAIN rooms \cup {code}
                   /\ \A c \in DOMAIN rooms : rooms'[c] = rooms[c]
                   /\ rooms'[code].host = ws
                   /\ rooms'[code].clients = << >>
                   /\ DOMAIN rooms'[code].playerData = {"host"}
                   /\ roomCode'[ws] = code
                   /\ isHost'[ws]
                   /\ playerId'[ws] = "host"
       /\ \A code \in DOMAIN rooms' :
            code \notin DOMAIN rooms =>
               /\ Len(sent') = 1
               /\ sent'[1].type = "room_created"
               /\ sent'[1].arg = code
       /\ \A ws \in Conns : \A code \in Codes :
            (ws \in inbound /\ code \notin DOMAIN rooms /\ code \in DOMAIN rooms'
             /\ CreateRoom(ws, code))
            => sent' = <<[to |-> ws, type |-> "room_created", arg |-> code,
                          open |-> readyState[ws] = "OPEN"]>>]_vars

\* a room has just been created beside a room that has a guest
CreateBesideExistingRoom ==
    /\ Len(sent) = 1
    /\ sent[1].type = "room_created"
    /\ \E c \in DOMAIN rooms :
          /\ c # sent[1].arg
          /\ rooms[c].clients # << >>
          /\ rooms[c].host # sent[1].to

\* the step handles a relayed message of ws that any member may send
RelaysFrom(ws) ==
    \/ \E position \in Positions : PlayerPosition(ws, position)
    \/ \E animState \in AnimStates : PlayerAnimation(ws, animState)
    \/ ChatMessage(ws)
    \/ \E puzzleId \in PuzzleIds : PuzzleUpdate(ws, puzzleId)
    \/ Interaction(ws)

\* C18: a guest whose leave_room has been handled (it holds no slot in the
\* room its roomCode names and is not that room's host) relays nothing into
\* that room: a player_position, player_animation, chat_message,
\* puzzle_update or interaction it sends is written to no member of the room
\* and leaves the room's state as it was.
DepartedGuestIsSilent ==
    [][\A ws \in inbound :
          (/\ roomCode[ws] \in DOMAIN rooms
           /\ ~isHost[ws]
           /\ ws # rooms[roomCode[ws]].host
           /\ ws \notin Guests(rooms[roomCode[ws]])
           /\ RelaysFrom(ws))
          => LET room == rooms[roomCode[ws]]
             IN  /\ rooms' = rooms
                 /\ \A i \in DOMAIN sent' :
                       sent'[i].to \notin {room.host} \cup Guests(room)]_vars

\* the rooms `ws` is the host of or holds a slot in
RoomsOf(ws) ==
    {c \in DOMAIN rooms : rooms[c].host = ws \/ ws \in Guests(rooms[c])}

\* C19: membership is consistent and rooms are isolated.  Every connection
\* is a member of at most one room and holds at most one role and slot in it;
\* the host of a room has that room's code as roomCode and isHost true, every
\* guest has it as roomCode and isHost false; and no message relayed for a
\* member of one room is written to a connection bound to another room.
MembershipConsistentRoomsIsolated ==
    [][/\ \A ws \in Conns :
            /\ Cardinality(RoomsOf(ws))' <= 1
            /\ \A c \in DOMAIN rooms' :
                  /\ Slots(rooms'[c].clients, ws) <= 1
                  /\ ~(rooms'[c].host = ws /\ ws \in Guests(rooms'[c]))
       /\ \A c \in DOMAIN rooms' :
            /\ roomCode'[rooms'[c].host] = c
            /\ isHost'[rooms'[c].host]
            /\ \A g \in Guests(rooms'[c]) : roomCode'[g] = c /\ ~isHost'[g]
       /\ \A ws \in inbound :
            (roomCode[ws] \in DOMAIN rooms
             /\ (RelaysFrom(ws) \/ EnemyCapture(ws)
                 \/ \E data \in EnvData : EnvironmentUpdate(ws, data)
                 \/ \E enemy \in EnemyData : EnemyState(ws, enemy)))
            => \A i \in DOMAIN sent' :
                  roomCode[sent'[i].to] = roomCode[ws]]_vars

\* how many times a handler wrote `type` to connection `to`
Copies(msgs, type, to) ==
    Cardinality({i \in DOMAIN msgs : msgs[i].type = type /\ msgs[i].to = to})

\* C20: each departure is announced at most once.  Whatever runs the
\* disconnect handling, no connection is written host_disconnected twice, nor
\* player_left after host_disconnected; the handling of one leave_room or
\* 'close' event writes player_left at most once to each recipient; and
\* running the handling again for the same connection (leave_room, then the
\* sweep, then 'close') announces nothing more.
DepartureAnnouncedOnce ==
    [][/\ \A m \in Conns :
            /\ Copies(sent', "host_disconnected", m) <= 1
            /\ \A i, j \in DOMAIN sent' :
                  (i < j /\ sent'[i].to = m /\ sent'[j].to = m
                   /\ sent'[i].type = "host_disconnected")
                  => sent'[j].type # "player_left"
       /\ \A ws \in Conns :
            (sent' # << >> /\ roomCode[ws] # Undefined
             /\ (LeaveRoom(ws) \/ Close(ws)))
            => /\ \A m \in Conns : Copies(sent', "player_left", m) <= 1
               /\ handleDisconnect(Cur', ws).sent = << >>]_vars
====
